---- MODULE Spec2Model ----
(***************************************************************************)
(* Model of .utils/validate_addon.py: the validation of the changed files  *)
(* of a commit against the templates/<vendor-product>/ conventions.        *)
(*                                                                         *)
(* Paths and slugs are strings; the Python string tests (startswith,       *)
(* endswith, split, the regular expressions) are computed on them.  A      *)
(* loaded YAML document is a tagged value [t |-> python type, v |-> ...].  *)
(***************************************************************************)
EXTENDS Integers, Sequences, FiniteSets, TLC

VARIABLES
    changed_files,        \* main: the list read from the input file
    fs,                   \* the working tree: path -> [parses, doc]
    products,             \* changed_by_dir: its keys, in insertion order
    groups,               \* changed_by_dir: vendor_product -> list of files
    idx,                  \* main: position of the loop over changed_by_dir
    pc,                   \* the statement the run is at
    existing_asset_dirs,  \* validate_vendor_product_dir: its local and result
    team_slug,            \* validate_cross_file_references: its local
    collection_slug,      \* validate_cross_file_references: its local
    result,               \* how the run ended (or "running")
    passed,               \* products printed as "passed validation", in order
    ran,                  \* <<product, check>> for every check that was run
    loaded,               \* files the cross-file functions opened and read slugs from
    mdoc,                 \* check_structure harness: the document
    mshape,               \* check_structure harness: the expected structure
    mremoved,             \* check_structure harness: the required key path removed ("" if none)
    mresult               \* check_structure harness: what check_structure returned

vars == <<changed_files, fs, products, groups, idx, pc, existing_asset_dirs,
          team_slug, collection_slug, result, passed, ran, loaded,
          mdoc, mshape, mremoved, mresult>>

runVars == <<changed_files, fs, products, groups, idx, pc, existing_asset_dirs,
             team_slug, collection_slug, result, passed, ran, loaded>>

matchVars == <<mdoc, mshape, mremoved, mresult>>

(***************************************************************************)
(* Python string primitives                                                *)
(***************************************************************************)
StartsWith(s, p) == Len(s) >= Len(p) /\ SubSeq(s, 1, Len(p)) = p

EndsWith(s, p) == Len(s) >= Len(p) /\ SubSeq(s, Len(s) - Len(p) + 1, Len(s)) = p

Contains(s, p) == \E i \in 1..(Len(s) - Len(p) + 1) : SubSeq(s, i, i + Len(p) - 1) = p

\* s.split("/"): the parts of s from position i on, the current part starting at a
RECURSIVE SplitFrom(_, _, _)
SplitFrom(s, a, i) ==
    IF i > Len(s) THEN <<SubSeq(s, a, Len(s))>>
    ELSE IF SubSeq(s, i, i) = "/" THEN <<SubSeq(s, a, i - 1)>> \o SplitFrom(s, i + 1, i + 1)
    ELSE SplitFrom(s, a, i + 1)

Split(s) == SplitFrom(s, 1, 1)

IsYaml(f) == EndsWith(f, ".yaml") \/ EndsWith(f, ".yml")

(***************************************************************************)
(* Loaded documents                                                        *)
(***************************************************************************)
Str(s)  == [t |-> "str", v |-> s]
Dict(d) == [t |-> "dict", v |-> d]
List(q) == [t |-> "list", v |-> q]
IntV(n) == [t |-> "int", v |-> n]
NoneV   == [t |-> "NoneType", v |-> ""]

\* the value of a failed subscript: data[key] raised KeyError or TypeError
Raised(e) == [t |-> "raised", v |-> e]

\* key in data
PyIn(key, data) ==
    CASE data.t = "dict" -> key \in DOMAIN data.v
      [] data.t = "list" -> \E i \in 1..Len(data.v) : data.v[i] = Str(key)
      [] data.t = "str"  -> Contains(data.v, key)
      [] OTHER -> FALSE

\* key in data raises TypeError
PyInRaises(data) == data.t \notin {"dict", "list", "str"}

\* data[key]
Subscript(data, key) ==
    CASE data.t = "raised" -> data
      [] data.t = "dict" -> IF key \in DOMAIN data.v THEN data.v[key] ELSE Raised("KeyError")
      [] OTHER -> Raised("TypeError")

(***************************************************************************)
(* Expected structures: a Python dict in insertion order is a sequence of  *)
(* <<key, expected value>>.                                                *)
(***************************************************************************)
Lit(s)   == [e |-> "lit", v |-> Str(s)]
Ty(t)    == [e |-> "type", v |-> t]
Shape(q) == [e |-> "shape", v |-> q]
Tmpl(q)  == [e |-> "list", v |-> q]

TEAM_EXPECTED_STRUCTURE ==
    << <<"api_version", Lit("v1/config")>>,
       <<"kind", Lit("Team")>>,
       <<"spec", Shape(<< <<"slug", Ty("str")>>, <<"name", Ty("str")>> >>)>> >>

COLLECTION_EXPECTED_STRUCTURE ==
    << <<"api_version", Lit("v1/config")>>,
       <<"kind", Lit("Collection")>>,
       <<"spec", Shape(<< <<"slug", Ty("str")>>, <<"name", Ty("str")>>,
                          <<"team_slug", Ty("str")>> >>)>> >>

DASHBOARD_EXPECTED_STRUCTURE ==
    << <<"api_version", Lit("v1/config")>>,
       <<"kind", Lit("Dashboard")>>,
       <<"spec", Shape(<< <<"slug", Ty("str")>>, <<"name", Ty("str")>>,
                          <<"collection_slug", Ty("str")>>,
                          <<"dashboard_json", Ty("str")>> >>)>> >>

MONITOR_EXPECTED_STRUCTURE ==
    << <<"api_version", Lit("v1/config")>>,
       <<"kind", Lit("Monitor")>>,
       <<"spec", Shape(<< <<"slug", Ty("str")>>, <<"name", Ty("str")>>,
                          <<"collection_slug", Ty("str")>>,
                          <<"notification_policy_slug", Ty("str")>>,
                          <<"prometheus_query", Ty("str")>> >>)>> >>

NOTIFICATION_POLICY_EXPECTED_STRUCTURE ==
    << <<"api_version", Lit("v1/config")>>,
       <<"kind", Lit("NotificationPolicy")>>,
       <<"spec", Shape(<< <<"slug", Ty("str")>>, <<"name", Ty("str")>>,
                          <<"team_slug", Ty("str")>>,
                          <<"routes", Shape(<< <<"defaults", Ty("dict")>> >>)>> >>)>> >>

(***************************************************************************)
(* check_structure                                                         *)
(***************************************************************************)
OK == [kind |-> "ok", path |-> ""]
Err(k, p) == [kind |-> k, path |-> p]

RECURSIVE check_structure(_, _, _)
RECURSIVE check_key(_, _, _, _)
RECURSIVE check_items(_, _, _, _)

\* the slip of reporting the key without its parent path
RECURSIVE check_structure_bareKey(_, _, _)
check_structure_bareKey(data, expected, parent) ==
    IF expected = <<>> THEN OK
    ELSE LET r == check_key(data, expected[1][1], expected[1][2], expected[1][1])
         IN  IF r # OK THEN r ELSE check_structure_bareKey(data, Tail(expected), parent)

\* lines 372-388: the loop over the items of a list value, from index i (1-based here)
check_items(items, expected_item, full_key, i) ==
    IF i > Len(items) THEN OK
    ELSE LET item == items[i]
             item_key == full_key \o "[" \o ToString(i - 1) \o "]"
             r == CASE expected_item.e = "shape" ->
                          IF item.t # "dict" THEN Err("WrongType", item_key)
                          ELSE check_structure(item, expected_item.v, item_key \o ".")
                    [] expected_item.e = "type" ->
                          IF item.t # expected_item.v THEN Err("WrongType", item_key) ELSE OK
                    [] expected_item.e = "lit" ->
                          IF item # expected_item.v THEN Err("ValueMismatch", item_key) ELSE OK
                    [] OTHER -> OK
         IN  IF r # OK THEN r ELSE check_items(items, expected_item, full_key, i + 1)

\* lines 356-399: the body of the loop for one key
check_key(data, key, expected_value, full_key) ==
    IF PyInRaises(data) THEN Err("TypeError", full_key)
    ELSE IF ~PyIn(key, data) THEN Err("MissingKey", full_key)
    ELSE IF data.t # "dict" THEN Err("TypeError", full_key)
    ELSE LET value == data.v[key]
         IN  CASE expected_value.e = "shape" ->
                      IF value.t # "dict" THEN Err("WrongType", full_key)
                      ELSE check_structure(value, expected_value.v, full_key \o ".")
               [] expected_value.e = "list" ->
                      IF value.t # "list" THEN Err("WrongType", full_key)
                      ELSE IF Len(expected_value.v) # 1 THEN Err("BadTemplate", full_key)
                      ELSE check_items(value.v, expected_value.v[1], full_key, 1)
               [] expected_value.e = "type" ->
                      IF value.t # expected_value.v THEN Err("WrongType", full_key) ELSE OK
               [] expected_value.e = "lit" ->
                      IF value # expected_value.v THEN Err("ValueMismatch", full_key) ELSE OK
               [] OTHER -> OK

check_structure(data, expected, parent) ==
    IF expected = <<>> THEN OK
    ELSE LET r == check_key(data, expected[1][1], expected[1][2], parent \o expected[1][1])
         IN  IF r # OK THEN r ELSE check_structure(data, Tail(expected), parent)

(***************************************************************************)
(* The schema catalog's tables                                             *)
(***************************************************************************)
AssetTypeOrder == <<"dashboards", "monitors", "notification-policies",
                    "collectors", "processors", "parsers">>

ALL_ASSET_TYPES ==
    [a \in {AssetTypeOrder[i] : i \in 1..Len(AssetTypeOrder)} |->
        CASE a = "processors" -> {".json"}
          [] a = "parsers" -> {".conf"}
          [] OTHER -> {".yaml", ".yml"}]

PLATFORM_ASSET_TYPES == {"dashboards", "monitors", "notification-policies"}

\* file.endswith(expected_extensions)
HasExtension(f, exts) == \E x \in exts : EndsWith(f, x)

(***************************************************************************)
(* Reading files.  yaml.safe_load / json.load either raise or yield the    *)
(* document; what a file holds is fs[f].                                   *)
(***************************************************************************)
Load(f) == fs[f].doc

\* json.loads(text) returns: the JSON texts the model's files use
ValidJSONTexts == {"{}", "{\"panels\": []}", "[1, 2]"}

json_loads_ok(value) == value.t = "str" /\ value.v \in ValidJSONTexts

\* the first of the indices hits (those of the elements a search accepts),
\* 0 if there is none
FirstIdx(hits) ==
    IF hits = {} THEN 0 ELSE CHOOSE i \in hits : \A j \in hits : i <= j

(***************************************************************************)
(* Failures: what a raised exception carries.  kind "ok" is no exception.  *)
(***************************************************************************)
Fail(kind, check, file, path, invalid) ==
    [kind |-> kind, check |-> check, file |-> file, path |-> path, invalid |-> invalid]

NoFail == Fail("ok", "", "", "", {})

\* an Err of check_structure raised out of check `check` for `file`;
\* TypeError is not a ValueError: the run dies of an uncaught exception
FromErr(r, check, file) ==
    IF r.kind = "ok" THEN NoFail
    ELSE IF r.kind = "TypeError" THEN Fail("Crash", check, file, "TypeError", {})
    ELSE Fail(r.kind, check, file, r.path, {})

(***************************************************************************)
(* File-level validation functions                                         *)
(***************************************************************************)
\* for key in keys: if key not in data: raise
RECURSIVE RequireKeys(_, _, _)
RequireKeys(data, keys, where) ==
    IF keys = <<>> THEN OK
    ELSE IF PyInRaises(data) THEN Err("TypeError", where)
    ELSE IF ~PyIn(keys[1], data) THEN Err("MissingKey", where \o keys[1])
    ELSE RequireKeys(data, Tail(keys), where)

\* for i, item in enumerate(items): for key in keys: ...
RECURSIVE ItemsRequireKeys(_, _, _, _)
ItemsRequireKeys(items, keys, label, i) ==
    IF i > Len(items) THEN OK
    ELSE LET r == RequireKeys(items[i], keys, label \o "[" \o ToString(i - 1) \o "].")
         IN  IF r # OK THEN r ELSE ItemsRequireKeys(items, keys, label, i + 1)

validate_manifest_file(manifest_file) ==
    LET manifest == Load(manifest_file)
        top == RequireKeys(manifest, <<"tech_type", "asset_list">>, "")
        hasDocs == PyIn("data_source_and_docs", manifest)
        data_source_list == Subscript(manifest, "data_source_and_docs")
        docs == IF ~hasDocs THEN OK
                ELSE IF data_source_list.t = "raised" THEN Err("TypeError", "data_source_and_docs")
                ELSE IF data_source_list.t # "list" THEN Err("WrongType", "data_source_and_docs")
                ELSE ItemsRequireKeys(data_source_list.v, <<"title", "url">>,
                                      "data_source_and_docs", 1)
        asset_list == Subscript(manifest, "asset_list")
        assets == IF asset_list.t = "raised" THEN Err("TypeError", "asset_list")
                  ELSE IF asset_list.t # "list" THEN Err("WrongType", "asset_list")
                  ELSE ItemsRequireKeys(asset_list.v,
                           <<"asset_type", "name", "slug", "file", "config_required",
                             "description">>, "asset_list", 1)
    IN  IF top # OK THEN top ELSE IF docs # OK THEN docs ELSE assets

validate_team_file(team_file) ==
    check_structure(Load(team_file), TEAM_EXPECTED_STRUCTURE, "")

validate_collection_file(collection_file) ==
    check_structure(Load(collection_file), COLLECTION_EXPECTED_STRUCTURE, "")

validate_dashboard_file(dashboard_file) ==
    LET data == Load(dashboard_file)
        r == check_structure(data, DASHBOARD_EXPECTED_STRUCTURE, "")
        dashboard_json_str == Subscript(Subscript(data, "spec"), "dashboard_json")
    IN  IF r # OK THEN r
        ELSE IF dashboard_json_str.t = "dict" THEN OK
        ELSE IF json_loads_ok(dashboard_json_str) THEN OK
        ELSE Err("InvalidEmbeddedJSON", "spec.dashboard_json")

validate_monitor_file(monitor_file) ==
    check_structure(Load(monitor_file), MONITOR_EXPECTED_STRUCTURE, "")

validate_notif_policy_file(notif_policy_file) ==
    check_structure(Load(notif_policy_file), NOTIFICATION_POLICY_EXPECTED_STRUCTURE, "")

(***************************************************************************)
(* Directory-level validation functions.  Each yields the failure it       *)
(* raises for (vendor_product, files), NoFail when it returns normally.    *)
(***************************************************************************)
Prefix(vendor_product) == "templates/" \o vendor_product \o "/"

Unparseable(f) == (IsYaml(f) \/ EndsWith(f, ".json")) /\ ~fs[f].parses

validate_files_parseable(vendor_product, files) ==
    LET i == FirstIdx({k \in 1..Len(files) : Unparseable(files[k])})
    IN  IF i = 0 THEN NoFail ELSE Fail("ParseError", "parse", files[i], "", {})

\* the slip of testing the directory instead of the file: f.startswith(readme_dir)
check_readme_file_startswith(vendor_product, files) ==
    IF \E i \in 1..Len(files) : StartsWith(files[i], Prefix(vendor_product)) THEN NoFail
    ELSE Fail("MissingFile", "readme", Prefix(vendor_product) \o "README.md", "", {})

check_readme_file(vendor_product, files) ==
    LET readme_file == Prefix(vendor_product) \o "README.md"
    IN  IF \E i \in 1..Len(files) : files[i] = readme_file THEN NoFail
        ELSE Fail("MissingFile", "readme", readme_file, "", {})

\* re.fullmatch(rf"templates/{vendor_product}/manifest\.ya?ml", f)
IsManifest(vendor_product, f) ==
    f \in {Prefix(vendor_product) \o "manifest.yml", Prefix(vendor_product) \o "manifest.yaml"}

\* next((f for f in files if ...), None), then validate_manifest_file(manifest_file)
check_manifest_file(vendor_product, files) ==
    LET i == FirstIdx({k \in 1..Len(files) : IsManifest(vendor_product, files[k])})
    IN  IF i = 0 THEN Fail("MissingFile", "manifest", "", "", {})
        ELSE FromErr(validate_manifest_file(files[i]), "manifest", files[i])

\* the set check_existing_asset_dirs builds
ExistingDirs(vendor_product, files) ==
    {a \in DOMAIN ALL_ASSET_TYPES :
        \E i \in 1..Len(files) : StartsWith(files[i], Prefix(vendor_product) \o a \o "/")}

check_existing_asset_dirs(vendor_product, files) ==
    IF ExistingDirs(vendor_product, files) = {}
    THEN Fail("NoAssetDirectory", "asset_dirs", "", "", {})
    ELSE NoFail

\* the slip of testing one direction only
DependencyBroken_oneWay(dirs) ==
    "monitors" \in dirs /\ "notification-policies" \notin dirs

DependencyBroken(dirs) ==
    \/ "monitors" \in dirs /\ "notification-policies" \notin dirs
    \/ "notification-policies" \in dirs /\ "monitors" \notin dirs

check_asset_dir_dependencies(vendor_product, dirs) ==
    IF DependencyBroken(dirs)
    THEN Fail("DependencyViolation", "deps", "", "", {})
    ELSE NoFail

\* matching_files of one asset type, as a set of list positions
MatchingFiles(vendor_product, files, asset_type) ==
    {i \in 1..Len(files) : StartsWith(files[i], Prefix(vendor_product) \o asset_type \o "/")}

\* the validate_*_file call check_required_files_in_assets makes for asset_type
ValidateAssetFile(asset_type, f) ==
    CASE asset_type = "dashboards" -> validate_dashboard_file(f)
      [] asset_type = "monitors" -> validate_monitor_file(f)
      [] asset_type = "notification-policies" -> validate_notif_policy_file(f)
      [] OTHER -> OK

\* invalid_files.  The loop runs over a Python set, whose order varies from run
\* to run, so the messages are kept as a set of [file, reason].
InvalidFiles(vendor_product, files, dirs) ==
    UNION {
        {[file |-> files[i], reason |-> "InvalidExtension"] :
            i \in {j \in MatchingFiles(vendor_product, files, a) :
                      ~HasExtension(files[j], ALL_ASSET_TYPES[a])}}
        \cup
        {[file |-> files[i], reason |-> ValidateAssetFile(a, files[i]).kind] :
            i \in {j \in MatchingFiles(vendor_product, files, a) :
                      /\ HasExtension(files[j], ALL_ASSET_TYPES[a])
                      /\ ValidateAssetFile(a, files[j]) # OK}}
        : a \in dirs }

\* missing_assets
MissingAssets(vendor_product, files, dirs) ==
    {a \in dirs : MatchingFiles(vendor_product, files, a) = {}}

check_required_files_in_assets(vendor_product, files, dirs) ==
    IF MissingAssets(vendor_product, files, dirs) # {}
    THEN Fail("MissingAssets", "required", "", "", {})
    ELSE IF InvalidFiles(vendor_product, files, dirs) # {}
    THEN Fail("InvalidFiles", "required", "", "", InvalidFiles(vendor_product, files, dirs))
    ELSE NoFail

\* re.search(r"collection\.ya?ml$", f) and re.search(r"team\.ya?ml$", f)
IsCollectionName(f) == EndsWith(f, "collection.yml") \/ EndsWith(f, "collection.yaml")
IsTeamName(f) == EndsWith(f, "team.yml") \/ EndsWith(f, "team.yaml")

check_platform_asset_files(vendor_product, files, dirs) ==
    LET collection_files ==
            SelectSeq(files, LAMBDA f : StartsWith(f, Prefix(vendor_product)) /\ IsCollectionName(f))
        team_files ==
            SelectSeq(files, LAMBDA f : StartsWith(f, Prefix(vendor_product)) /\ IsTeamName(f))
    IN  IF dirs \cap PLATFORM_ASSET_TYPES = {} THEN NoFail
        ELSE IF Len(collection_files) # 1
        THEN Fail("MissingFile", "platform", "collection", ToString(Len(collection_files)), {})
        ELSE IF validate_collection_file(collection_files[1]) # OK
        THEN FromErr(validate_collection_file(collection_files[1]), "platform", collection_files[1])
        ELSE IF Len(team_files) # 1
        THEN Fail("MissingFile", "platform", "team", ToString(Len(team_files)), {})
        ELSE FromErr(validate_team_file(team_files[1]), "platform", team_files[1])

(***************************************************************************)
(* Cross-file validation functions                                         *)
(***************************************************************************)
\* next(f for f in files if re.search(...)): "" when the generator is empty
FirstNamed(files, hits) ==
    LET i == FirstIdx(hits) IN IF i = 0 THEN "" ELSE files[i]

\* the slug read at path keys, Raised(...) when a subscript raises
SlugAt(f, key) == Subscript(Subscript(Load(f), "spec"), key)

\* get_team_slug_from_collection: <<failure, team_slug, files read>>
get_team_slug_from_collection(vendor_product, files) ==
    LET team_path == FirstNamed(files, {k \in 1..Len(files) : IsTeamName(files[k])})
    IN  IF team_path = ""
        THEN <<Fail("Crash", "x_team", "", "StopIteration", {}), NoneV, {}>>
        ELSE IF SlugAt(team_path, "slug").t = "raised"
        THEN <<Fail("Crash", "x_team", team_path, SlugAt(team_path, "slug").v, {}),
               NoneV, {team_path}>>
        ELSE <<NoFail, SlugAt(team_path, "slug"), {team_path}>>

\* validate_team_slug_for_collection: <<failure, collection_slug, files read>>
validate_team_slug_for_collection(vendor_product, files, teamSlug) ==
    LET collection_path == FirstNamed(files, {k \in 1..Len(files) : IsCollectionName(files[k])})
    IN  IF collection_path = ""
        THEN <<Fail("Crash", "x_collection", "", "StopIteration", {}), NoneV, {}>>
        ELSE IF SlugAt(collection_path, "slug").t = "raised"
        THEN <<Fail("Crash", "x_collection", collection_path,
                    SlugAt(collection_path, "slug").v, {}), NoneV, {collection_path}>>
        ELSE IF SlugAt(collection_path, "team_slug").t = "raised"
        THEN <<Fail("Crash", "x_collection", collection_path,
                    SlugAt(collection_path, "team_slug").v, {}), NoneV, {collection_path}>>
        ELSE IF SlugAt(collection_path, "team_slug") # teamSlug
        THEN <<Fail("SlugMismatch", "x_collection", collection_path, "spec.team_slug", {}),
               NoneV, {collection_path}>>
        ELSE <<NoFail, SlugAt(collection_path, "slug"), {collection_path}>>

\* asset_file.startswith(f"templates/{vendor_product}/{asset_type}")
InAssetTree(vendor_product, asset_type, f) ==
    StartsWith(f, "templates/" \o vendor_product \o "/" \o asset_type)

\* the files a cross-file loop opens, in the order it opens them
SlugFiles(vendor_product, files, asset_types) ==
    IF asset_types = <<>> THEN <<>>
    ELSE SelectSeq(files, LAMBDA f : IsYaml(f) /\ InAssetTree(vendor_product, asset_types[1], f))
         \o (IF Len(asset_types) = 1 THEN <<>>
             ELSE SelectSeq(files, LAMBDA f :
                            IsYaml(f) /\ InAssetTree(vendor_product, asset_types[2], f)))

\* the loop body shared by both functions: read data['spec'][key] of each file
\* in turn and compare: <<failure, files read>>
CompareSlugs(cand, key, expected, check) ==
    LET bad(f) == SlugAt(f, key).t = "raised" \/ SlugAt(f, key) # expected
        i == FirstIdx({k \in 1..Len(cand) : bad(cand[k])})
    IN  IF i = 0 THEN <<NoFail, {cand[j] : j \in 1..Len(cand)}>>
        ELSE IF SlugAt(cand[i], key).t = "raised"
        THEN <<Fail("Crash", check, cand[i], SlugAt(cand[i], key).v, {}),
               {cand[j] : j \in 1..i}>>
        ELSE <<Fail("SlugMismatch", check, cand[i], "spec." \o key, {}),
               {cand[j] : j \in 1..i}>>

validate_collection_slug_for_platform_assets(vendor_product, files, collectionSlug) ==
    CompareSlugs(SlugFiles(vendor_product, files, <<"dashboards", "monitors">>),
                 "collection_slug", collectionSlug, "x_assets")

validate_team_slug_for_notif_policy(vendor_product, files, teamSlug) ==
    CompareSlugs(SlugFiles(vendor_product, files, <<"notification-policies">>),
                 "team_slug", teamSlug, "x_notif")

(***************************************************************************)
(* The inputs: a changed-file list and the content of each listed file.    *)
(* Each slot is a path with the contents it may have; an input takes, for  *)
(* every slot, one of them or leaves the path out of the list.             *)
(***************************************************************************)
Plain   == [parses |-> TRUE, doc |-> NoneV]
Broken  == [parses |-> FALSE, doc |-> NoneV]
Yaml(d) == [parses |-> TRUE, doc |-> d]

TeamDoc(slug) ==
    Dict([api_version |-> Str("v1/config"), kind |-> Str("Team"),
          spec |-> Dict([slug |-> Str(slug), name |-> Str("The team")])])

TeamDocNoSlug ==
    Dict([api_version |-> Str("v1/config"), kind |-> Str("Team"),
          spec |-> Dict([name |-> Str("The team")])])

CollectionDoc(slug, teamSlug) ==
    Dict([api_version |-> Str("v1/config"), kind |-> Str("Collection"),
          spec |-> Dict([slug |-> Str(slug), name |-> Str("The collection"),
                         team_slug |-> Str(teamSlug)])])

CollectionDocNoTeam ==
    Dict([api_version |-> Str("v1/config"), kind |-> Str("Collection"),
          spec |-> Dict([slug |-> Str("c1"), name |-> Str("The collection")])])

DashboardDoc(collectionSlug, dashboardJson) ==
    Dict([api_version |-> Str("v1/config"), kind |-> Str("Dashboard"),
          spec |-> Dict([slug |-> Str("d1"), name |-> Str("A dashboard"),
                         collection_slug |-> Str(collectionSlug),
                         dashboard_json |-> dashboardJson])])

DashboardDocNoCollection ==
    Dict([api_version |-> Str("v1/config"), kind |-> Str("Dashboard"),
          spec |-> Dict([slug |-> Str("d1"), name |-> Str("A dashboard"),
                         dashboard_json |-> Str("{}")])])

MonitorDoc(collectionSlug) ==
    Dict([api_version |-> Str("v1/config"), kind |-> Str("Monitor"),
          spec |-> Dict([slug |-> Str("m1"), name |-> Str("A monitor"),
                         collection_slug |-> Str(collectionSlug),
                         notification_policy_slug |-> Str("n1"),
                         prometheus_query |-> Str("up == 0")])])

NotifDoc(teamSlug) ==
    Dict([api_version |-> Str("v1/config"), kind |-> Str("NotificationPolicy"),
          spec |-> Dict([slug |-> Str("n1"), name |-> Str("A policy"),
                         team_slug |-> Str(teamSlug),
                         routes |-> Dict([defaults |-> Dict([channel |-> Str("mail")])])])])

AssetEntry ==
    Dict([asset_type |-> Str("dashboard"), name |-> Str("A dashboard"), slug |-> Str("d1"),
          file |-> Str("dashboards/d1.yaml"), config_required |-> Str("no"),
          description |-> Str("An asset")])

ManifestDoc ==
    Dict([tech_type |-> Str("database"), asset_list |-> List(<<AssetEntry>>),
          data_source_and_docs |-> List(<<Dict([title |-> Str("Docs"), url |-> Str("https://x")])>>)])

ManifestDocNoAssetList == Dict([tech_type |-> Str("database")])

ManifestDocBadDocs ==
    Dict([tech_type |-> Str("database"), asset_list |-> List(<<AssetEntry>>),
          data_source_and_docs |-> List(<<Dict([title |-> Str("Docs")])>>)])

\* a YAML mapping with no spec
NotesDoc == Dict([note |-> Str("retired")])

Slot(path, variants, base) == [path |-> path, variants |-> variants, base |-> base]

\* base is the slot's variant in the reference input (0: the path is not listed)
Slots ==
    << Slot("templates/acme/README.md", <<Plain>>, 1),
       Slot("templates/beta/README.md", <<Plain>>, 1),
       Slot("templates/acme/manifest.yaml",
            <<Yaml(ManifestDoc), Yaml(ManifestDocNoAssetList), Yaml(ManifestDocBadDocs)>>, 1),
       Slot("templates/acme/manifest.yml", <<Yaml(ManifestDoc), Yaml(ManifestDocNoAssetList)>>, 0),
       Slot("templates/acme/team.yaml",
            <<Yaml(TeamDoc("t1")), Yaml(TeamDoc("t2")), Yaml(TeamDocNoSlug), Yaml(NoneV)>>, 1),
       Slot("templates/acme/sre-team.yml", <<Yaml(TeamDoc("t1"))>>, 0),
       Slot("templates/acme/collection.yaml",
            <<Yaml(CollectionDoc("c1", "t1")), Yaml(CollectionDoc("c1", "t2")),
              Yaml(CollectionDoc("c2", "t1")), Yaml(CollectionDocNoTeam)>>, 1),
       Slot("templates/acme/dashboards/d1.yaml",
            <<Yaml(DashboardDoc("c1", Str("{\"panels\": []}"))),
              Yaml(DashboardDoc("c2", Str("{}"))),
              Yaml(DashboardDoc("c1", Dict([panels |-> List(<<>>)]))),
              Yaml(DashboardDoc("c1", Str("{invalid"))),
              Yaml(DashboardDocNoCollection),
              Broken>>, 1),
       Slot("templates/acme/dashboards/notes.txt", <<Plain>>, 0),
       Slot("templates/acme/dashboards-old/x.yaml",
            <<Yaml(NotesDoc), Yaml(DashboardDoc("c2", Str("{}"))),
              Yaml(DashboardDoc("c1", Str("{}")))>>, 0),
       Slot("templates/acme/monitors/m1.yaml",
            <<Yaml(MonitorDoc("c1")), Yaml(MonitorDoc("c2"))>>, 1),
       Slot("templates/acme/notification-policies/n1.yaml",
            <<Yaml(NotifDoc("t1")), Yaml(NotifDoc("t2"))>>, 1),
       Slot("templates/acme/processors/p1.json", <<Plain, Broken>>, 0),
       Slot("templates/beta/manifest.yaml", <<Yaml(ManifestDoc), Yaml(ManifestDocNoAssetList)>>, 1),
       Slot("templates/beta/collectors/c1.yaml", <<Yaml(NotesDoc), Broken>>, 1),
       Slot("docs/notes.md", <<Plain>>, 0),
       Slot("templates/top.yaml", <<Broken>>, 0) >>

NSlots == Len(Slots)

\* the reference inputs: every product well formed, and the empty list
BaseChoices == {[i \in 1..NSlots |-> Slots[i].base], [i \in 1..NSlots |-> 0]}

\* how many slots an input may differ in from a reference input
MaxDeviations == 2

\* the choices for slots 1..i that differ from base in at most d slots
RECURSIVE Choices(_, _, _)
Choices(base, i, d) ==
    IF i = 0 THEN {<<>>}
    ELSE {Append(c, base[i]) : c \in Choices(base, i - 1, d)}
         \cup (IF d = 0 THEN {}
               ELSE {Append(c, a) : c \in Choices(base, i - 1, d - 1),
                                    a \in (0..Len(Slots[i].variants)) \ {base[i]}})

Reverse(q) == [i \in 1..Len(q) |-> q[Len(q) + 1 - i]]

\* the changed-file list of a choice: the listed paths, in slot order
ListedSlots(c) == SelectSeq([i \in 1..NSlots |-> i], LAMBDA i : c[i] # 0)

FilesOf(c) == [k \in 1..Len(ListedSlots(c)) |-> Slots[ListedSlots(c)[k]].path]

TreeOf(c) ==
    [p \in {Slots[i].path : i \in {j \in 1..NSlots : c[j] # 0}} |->
        LET i == CHOOSE j \in 1..NSlots : Slots[j].path = p
        IN  Slots[i].variants[c[i]]]

(***************************************************************************)
(* main                                                                    *)
(***************************************************************************)
\* lines 96-99: <<vendor_product>> when the path is grouped, <<>> when it is not
GroupKey(f) ==
    IF StartsWith(f, "templates/")
    THEN LET parts == Split(f) IN IF Len(parts) >= 3 THEN <<parts[2]>> ELSE <<>>
    ELSE <<>>

GroupKeys(fileList) == [i \in 1..Len(fileList) |-> GroupKey(fileList[i])]

\* the slip of iterating the groups last-seen first
RECURSIVE ProductOrder_prepend(_, _)
ProductOrder_prepend(keys, seen) ==
    IF keys = <<>> THEN seen
    ELSE IF keys[1] # <<>> /\ ~\E i \in 1..Len(seen) : seen[i] = keys[1][1]
         THEN ProductOrder_prepend(Tail(keys), <<keys[1][1]>> \o seen)
         ELSE ProductOrder_prepend(Tail(keys), seen)

\* the keys of changed_by_dir in insertion order
RECURSIVE ProductOrder(_, _)
ProductOrder(keys, seen) ==
    IF keys = <<>> THEN seen
    ELSE IF keys[1] # <<>> /\ ~\E i \in 1..Len(seen) : seen[i] = keys[1][1]
         THEN ProductOrder(Tail(keys), Append(seen, keys[1][1]))
         ELSE ProductOrder(Tail(keys), seen)

\* changed_by_dir[product]
GroupOf(fileList, keys, product) ==
    LET at == SelectSeq([i \in 1..Len(fileList) |-> i], LAMBDA i : keys[i] = <<product>>)
    IN  [k \in 1..Len(at) |-> fileList[at[k]]]

Running == [kind |-> "running", check |-> "", file |-> "", path |-> "", invalid |-> {},
            product |-> ""]

AllPassed == [Running EXCEPT !.kind = "ok"]

Raise(f, vendor_product) ==
    [kind |-> f.kind, check |-> f.check, file |-> f.file, path |-> f.path,
     invalid |-> f.invalid, product |-> vendor_product]

NoDoc == NoneV
NoShape == <<>>
Unchecked == [kind |-> "unchecked", path |-> ""]

InitRun ==
    /\ products = <<>>
    /\ groups = <<>>
    /\ idx = 0
    /\ pc = "group"
    /\ existing_asset_dirs = {}
    /\ team_slug = NoneV
    /\ collection_slug = NoneV
    /\ result = Running
    /\ passed = <<>>
    /\ ran = <<>>
    /\ loaded = {}

Init ==
    /\ \E base \in BaseChoices : \E c \in Choices(base, NSlots, MaxDeviations) :
         \E rev \in BOOLEAN :
            /\ changed_files = IF rev THEN Reverse(FilesOf(c)) ELSE FilesOf(c)
            /\ fs = TreeOf(c)
    /\ InitRun
    /\ mdoc = NoDoc
    /\ mshape = NoShape
    /\ mremoved = ""
    /\ mresult = Unchecked

vendor_product == products[idx]
files == groups[vendor_product]

\* the slip of calling check_manifest_file before check_readme_file
DirChecks_manifestFirst ==
    <<"parse", "manifest", "readme", "asset_dirs", "deps", "required", "platform">>

\* lines 115-123: the calls of validate_vendor_product_dir, in order
DirChecks == <<"parse", "readme", "manifest", "asset_dirs", "deps", "required", "platform">>

\* lines 130-134: the calls of validate_cross_file_references, in order
CrossChecks == <<"x_team", "x_collection", "x_assets", "x_notif">>

\* the statement after `check` returns: the next call of its function; after the
\* last call of validate_vendor_product_dir, line 129 decides whether the
\* cross-file functions run; after the last of those, line 109
After(check, dirs) ==
    LET Pos(q) == FirstIdx({k \in 1..Len(q) : q[k] = check})
    IN  IF Pos(DirChecks) # 0 /\ Pos(DirChecks) < Len(DirChecks)
        THEN DirChecks[Pos(DirChecks) + 1]
        ELSE IF Pos(DirChecks) = Len(DirChecks)
        THEN (IF dirs \cap PLATFORM_ASSET_TYPES # {} THEN CrossChecks[1] ELSE "report")
        ELSE IF Pos(CrossChecks) # 0 /\ Pos(CrossChecks) < Len(CrossChecks)
        THEN CrossChecks[Pos(CrossChecks) + 1]
        ELSE "report"

\* lines 94-100
GroupByVendorProduct ==
    /\ pc = "group"
    /\ \E keys \in {GroupKeys(changed_files)} : \E order \in {ProductOrder(keys, <<>>)} :
           /\ products' = order
           /\ groups' = [vp \in {order[i] : i \in 1..Len(order)} |->
                            GroupOf(changed_files, keys, vp)]
           /\ IF order = <<>>
              THEN idx' = 0 /\ pc' = "done" /\ result' = AllPassed
              ELSE idx' = 1 /\ pc' = "parse" /\ result' = result
    /\ UNCHANGED <<changed_files, fs, existing_asset_dirs, team_slug, collection_slug,
                   passed, ran, loaded, matchVars>>

\* one call of validate_vendor_product_dir or validate_cross_file_references:
\* it raises f, or returns and the run goes on at `next`
Call(check, f, next) ==
    /\ pc = check
    /\ ran' = Append(ran, <<vendor_product, check>>)
    /\ IF f.kind = "ok"
       THEN pc' = next /\ result' = result
       ELSE pc' = "done" /\ result' = Raise(f, vendor_product)
    /\ UNCHANGED <<changed_files, fs, products, groups, idx, passed, matchVars>>

ValidateFilesParseable ==
    /\ pc = "parse"
    /\ Call("parse", validate_files_parseable(vendor_product, files),
            After("parse", existing_asset_dirs))
    /\ UNCHANGED <<existing_asset_dirs, team_slug, collection_slug, loaded>>

CheckReadmeFile ==
    /\ pc = "readme"
    /\ Call("readme", check_readme_file(vendor_product, files),
            After("readme", existing_asset_dirs))
    /\ UNCHANGED <<existing_asset_dirs, team_slug, collection_slug, loaded>>

CheckManifestFile ==
    /\ pc = "manifest"
    /\ Call("manifest", check_manifest_file(vendor_product, files),
            After("manifest", existing_asset_dirs))
    /\ UNCHANGED <<existing_asset_dirs, team_slug, collection_slug, loaded>>

CheckExistingAssetDirs ==
    /\ pc = "asset_dirs"
    /\ Call("asset_dirs", check_existing_asset_dirs(vendor_product, files),
            After("asset_dirs", ExistingDirs(vendor_product, files)))
    /\ existing_asset_dirs' = ExistingDirs(vendor_product, files)
    /\ UNCHANGED <<team_slug, collection_slug, loaded>>

CheckAssetDirDependencies ==
    /\ pc = "deps"
    /\ Call("deps", check_asset_dir_dependencies(vendor_product, existing_asset_dirs),
            After("deps", existing_asset_dirs))
    /\ UNCHANGED <<existing_asset_dirs, team_slug, collection_slug, loaded>>

CheckRequiredFilesInAssets ==
    /\ pc = "required"
    /\ Call("required",
            check_required_files_in_assets(vendor_product, files, existing_asset_dirs),
            After("required", existing_asset_dirs))
    /\ UNCHANGED <<existing_asset_dirs, team_slug, collection_slug, loaded>>

CheckPlatformAssetFiles ==
    /\ pc = "platform"
    /\ Call("platform",
            check_platform_asset_files(vendor_product, files, existing_asset_dirs),
            After("platform", existing_asset_dirs))
    /\ UNCHANGED <<existing_asset_dirs, team_slug, collection_slug, loaded>>

GetTeamSlugFromCollection ==
    /\ pc = "x_team"
    /\ LET r == get_team_slug_from_collection(vendor_product, files)
       IN  /\ Call("x_team", r[1], After("x_team", existing_asset_dirs))
           /\ team_slug' = r[2]
           /\ loaded' = loaded \cup r[3]
    /\ UNCHANGED <<existing_asset_dirs, collection_slug>>

ValidateTeamSlugForCollection ==
    /\ pc = "x_collection"
    /\ LET r == validate_team_slug_for_collection(vendor_product, files, team_slug)
       IN  /\ Call("x_collection", r[1], After("x_collection", existing_asset_dirs))
           /\ collection_slug' = r[2]
           /\ loaded' = loaded \cup r[3]
    /\ UNCHANGED <<existing_asset_dirs, team_slug>>

ValidateCollectionSlugForPlatformAssets ==
    /\ pc = "x_assets"
    /\ LET r == validate_collection_slug_for_platform_assets(vendor_product, files,
                                                             collection_slug)
       IN  /\ Call("x_assets", r[1], After("x_assets", existing_asset_dirs))
           /\ loaded' = loaded \cup r[2]
    /\ UNCHANGED <<existing_asset_dirs, team_slug, collection_slug>>

ValidateTeamSlugForNotifPolicy ==
    /\ pc = "x_notif"
    /\ LET r == validate_team_slug_for_notif_policy(vendor_product, files, team_slug)
       IN  /\ Call("x_notif", r[1], After("x_notif", existing_asset_dirs))
           /\ loaded' = loaded \cup r[2]
    /\ UNCHANGED <<existing_asset_dirs, team_slug, collection_slug>>

\* line 109, and the next iteration of the loop of line 103
ReportPassed ==
    /\ pc = "report"
    /\ passed' = Append(passed, vendor_product)
    /\ IF idx = Len(products)
       THEN idx' = idx /\ pc' = "done" /\ result' = AllPassed
       ELSE idx' = idx + 1 /\ pc' = "parse" /\ result' = result
    /\ existing_asset_dirs' = {}
    /\ team_slug' = NoneV
    /\ collection_slug' = NoneV
    /\ loaded' = {}
    /\ UNCHANGED <<changed_files, fs, products, groups, ran, matchVars>>

Next ==
    \/ GroupByVendorProduct
    \/ ValidateFilesParseable
    \/ CheckReadmeFile
    \/ CheckManifestFile
    \/ CheckExistingAssetDirs
    \/ CheckAssetDirDependencies
    \/ CheckRequiredFilesInAssets
    \/ CheckPlatformAssetFiles
    \/ GetTeamSlugFromCollection
    \/ ValidateTeamSlugForCollection
    \/ ValidateCollectionSlugForPlatformAssets
    \/ ValidateTeamSlugForNotifPolicy
    \/ ReportPassed

Spec == Init /\ [][Next]_vars

(***************************************************************************)
(* What the properties speak of, stated on the input (changed_files, fs)   *)
(* rather than on what the run computed.                                   *)
(***************************************************************************)
Elems(q) == {q[i] : i \in 1..Len(q)}

\* the touched files of a product group
Touched(p) == {f \in Elems(changed_files) : StartsWith(f, "templates/" \o p \o "/")}

\* the touched files under an asset directory of the product
Under(p, a) == {f \in Touched(p) : StartsWith(f, "templates/" \o p \o "/" \o a \o "/")}

TouchedKinds(p) == {a \in Elems(AssetTypeOrder) : Under(p, a) # {}}

Failed == result.kind \notin {"running", "ok"}

FailedIn(p) == Failed /\ result.product = p

Finished(p) == FailedIn(p) \/ p \in Elems(passed)

HasRun(p, check) == \E k \in 1..Len(ran) : ran[k] = <<p, check>>

AllParse(p) == \A f \in Touched(p) : ~Unparseable(f)

HasReadme(p) == ("templates/" \o p \o "/README.md") \in Touched(p)

Manifests(p) ==
    Touched(p) \cap {"templates/" \o p \o "/manifest.yml", "templates/" \o p \o "/manifest.yaml"}

CoDependencyBroken(p) ==
    ("monitors" \in TouchedKinds(p)) # ("notification-policies" \in TouchedKinds(p))

TouchesPlatform(p) == TouchedKinds(p) \cap PLATFORM_ASSET_TYPES # {}

TeamFiles(p) == {f \in Touched(p) : IsTeamName(f)}
CollectionFiles(p) == {f \in Touched(p) : IsCollectionName(f)}

\* the Dashboard schema without the requirement on dashboard_json's type
DashboardSansJson ==
    << <<"api_version", Lit("v1/config")>>,
       <<"kind", Lit("Dashboard")>>,
       <<"spec", Shape(<< <<"slug", Ty("str")>>, <<"name", Ty("str")>>,
                          <<"collection_slug", Ty("str")>>,
                          <<"dashboard_json", [e |-> "any", v |-> ""]>> >>)>> >>

OtherwiseDashboard(doc) == check_structure(doc, DashboardSansJson, "") = OK

DashboardJson(doc) == Subscript(Subscript(doc, "spec"), "dashboard_json")

\* a dashboard as the specification accepts it: an inline mapping or a JSON string
DashboardAccepted(doc) ==
    /\ OtherwiseDashboard(doc)
    /\ DashboardJson(doc).t = "dict" \/ json_loads_ok(DashboardJson(doc))

WellShaped(a, f) ==
    CASE a = "dashboards" -> DashboardAccepted(Load(f))
      [] a = "monitors" -> check_structure(Load(f), MONITOR_EXPECTED_STRUCTURE, "") = OK
      [] a = "notification-policies" ->
            check_structure(Load(f), NOTIFICATION_POLICY_EXPECTED_STRUCTURE, "") = OK
      [] OTHER -> TRUE

TheOne(S) == CHOOSE x \in S : TRUE

\* the slugs of the product agree (the product has one team and one collection file)
SlugsConsistent(p) ==
    LET team == SlugAt(TheOne(TeamFiles(p)), "slug")
        coll == TheOne(CollectionFiles(p))
    IN  /\ SlugAt(coll, "team_slug") = team
        /\ \A f \in Under(p, "dashboards") \cup Under(p, "monitors") :
               IsYaml(f) => SlugAt(f, "collection_slug") = SlugAt(coll, "slug")
        /\ \A f \in Under(p, "notification-policies") :
               IsYaml(f) => SlugAt(f, "team_slug") = team

WellFormed(p) ==
    /\ AllParse(p)
    /\ HasReadme(p)
    /\ Cardinality(Manifests(p)) = 1
    /\ validate_manifest_file(TheOne(Manifests(p))) = OK
    /\ TouchedKinds(p) # {}
    /\ ~CoDependencyBroken(p)
    /\ \A a \in TouchedKinds(p) : \A f \in Under(p, a) :
           HasExtension(f, ALL_ASSET_TYPES[a]) /\ WellShaped(a, f)
    /\ TouchesPlatform(p) =>
           /\ Cardinality(TeamFiles(p)) = 1
           /\ Cardinality(CollectionFiles(p)) = 1
           /\ check_structure(Load(TheOne(TeamFiles(p))), TEAM_EXPECTED_STRUCTURE, "") = OK
           /\ check_structure(Load(TheOne(CollectionFiles(p))),
                              COLLECTION_EXPECTED_STRUCTURE, "") = OK
           /\ SlugsConsistent(p)

(***************************************************************************)
(* C1                                                                      *)
(***************************************************************************)
\* C1: a product group that is well formed (README, one well-formed manifest, an
\* asset directory, monitors and notification-policies together, only
\* well-extensioned and well-shaped asset files, one well-formed team and one
\* well-formed collection file with consistent slugs) is never the product the
\* run fails in, and is reported as passed once the run is over it.
C1_WellFormedPasses ==
    \A i \in 1..Len(products) :
        /\ FailedIn(products[i]) => ~WellFormed(products[i])
        /\ (result.kind = "ok" /\ products[i] \notin Elems(passed)) => ~WellFormed(products[i])

(***************************************************************************)
(* C2                                                                      *)
(***************************************************************************)
ReadmeFailure(p) ==
    FailedIn(p) /\ result.kind = "MissingFile" /\ result.check = "readme"
        /\ result.file = "templates/" \o p \o "/README.md"

\* C2 as stated: a product without templates/<product>/README.md among its
\* touched files never passes, and when the run ends in it the failure is the
\* missing-README error, whatever the other files are.
C2_ReadmeRegardless ==
    \A i \in 1..Len(products) :
        /\ products[i] \in Elems(passed) => HasReadme(products[i])
        /\ (FailedIn(products[i]) /\ ~ReadmeFailure(products[i])) => HasReadme(products[i])

\* C2 amended: a product without its README.md whose touched YAML and JSON
\* files all parse never passes, and when the run ends in it the failure is the
\* missing-README error, whatever the manifest and the asset directories are.
C2_ReadmeWhenParseable ==
    \A i \in 1..Len(products) :
        /\ products[i] \in Elems(passed) => HasReadme(products[i])
        /\ (FailedIn(products[i]) /\ ~ReadmeFailure(products[i])) =>
               (HasReadme(products[i]) \/ ~AllParse(products[i]))

\* a product with neither README nor manifest, and a broken co-dependency, failed
C2_Witness ==
    \E i \in 1..Len(products) :
        /\ ~HasReadme(products[i]) /\ AllParse(products[i])
        /\ Manifests(products[i]) = {} /\ CoDependencyBroken(products[i])
        /\ ReadmeFailure(products[i])

(***************************************************************************)
(* C3                                                                      *)
(***************************************************************************)
CheckOrder == <<"parse", "readme", "manifest", "asset_dirs", "deps", "required", "platform">>

OrderOf(check) == FirstIdx({k \in 1..Len(CheckOrder) : CheckOrder[k] = check})

\* the files of the product in list order, and what each check does on them alone
ListOf(p) == SelectSeq(changed_files, LAMBDA f : StartsWith(f, "templates/" \o p \o "/"))

Violates(p, check) ==
    NoFail # (CASE check = "parse" -> validate_files_parseable(p, ListOf(p))
                [] check = "readme" -> check_readme_file(p, ListOf(p))
                [] check = "manifest" -> check_manifest_file(p, ListOf(p))
                [] check = "asset_dirs" -> check_existing_asset_dirs(p, ListOf(p))
                [] check = "deps" -> check_asset_dir_dependencies(p, ExistingDirs(p, ListOf(p)))
                [] check = "required" ->
                      check_required_files_in_assets(p, ListOf(p), ExistingDirs(p, ListOf(p)))
                [] check = "platform" ->
                      check_platform_asset_files(p, ListOf(p), ExistingDirs(p, ListOf(p))))

\* the directory-level checks run for p so far, in the order they ran
DirRan(p) == SelectSeq(ran, LAMBDA r : r[1] = p /\ OrderOf(r[2]) # 0)

\* the position in CheckOrder of the first check from k on that p violates, 0 if none
RECURSIVE FirstViolated(_, _)
FirstViolated(p, k) ==
    IF k > Len(CheckOrder) THEN 0
    ELSE IF Violates(p, CheckOrder[k]) THEN k
    ELSE FirstViolated(p, k + 1)

\* C3: the directory-level checks of a product run in the order parseability,
\* README, manifest, asset directories, co-dependency, per-directory
\* requirements, platform companions; a check runs only when every check
\* before it passed; when the run leaves a product, every check before the
\* earliest one the product violates has run, that check ended the run with its
\* failure, and no check ran after it.
C3_FailFastInOrder ==
    /\ \A i \in 1..Len(products) :
          /\ Len(DirRan(products[i])) <= Len(CheckOrder)
          /\ \A k \in 1..Len(DirRan(products[i])) : DirRan(products[i])[k][2] = CheckOrder[k]
    /\ (pc \in {"done", "report"} /\ idx > 0) =>
          \A p \in {products[idx]} : \A first \in {FirstViolated(p, 1)} :
              /\ first = 0 => (Len(DirRan(p)) = Len(CheckOrder) /\ OrderOf(result.check) = 0)
              /\ first # 0 =>
                    /\ Len(DirRan(p)) = first
                    /\ pc = "done"
                    /\ FailedIn(p) /\ result.check = CheckOrder[first]
                    /\ ran[Len(ran)] = <<p, CheckOrder[first]>>

\* the only touched file is a parseable monitors/m1.yaml: the README failure
C3_Witness ==
    /\ changed_files = <<"templates/acme/monitors/m1.yaml">>
    /\ Violates("acme", "deps")
    /\ pc = "done" /\ ReadmeFailure("acme")
    /\ ran = << <<"acme", "parse">>, <<"acme", "readme">> >>

(***************************************************************************)
(* C4                                                                      *)
(***************************************************************************)
\* C4: the manifest check passes only for a product with exactly one touched
\* manifest.yml / manifest.yaml: once a later check has run for a product, or
\* the product has passed, the product touches exactly one manifest file.
C4_ExactlyOneManifest ==
    \A i \in 1..Len(products) :
        (HasRun(products[i], "asset_dirs") \/ products[i] \in Elems(passed)) =>
            Cardinality(Manifests(products[i])) = 1

(***************************************************************************)
(* C5                                                                      *)
(***************************************************************************)
\* check_required_files_in_assets reported f as an invalid file of p
ReportedInvalid(p, f) ==
    /\ FailedIn(p) /\ result.check = "required"
    /\ \E e \in result.invalid : e.file = f

\* C5: once the per-directory requirements have been checked for a product,
\* a touched dashboard file that otherwise matches the Dashboard schema is
\* reported invalid exactly when its spec.dashboard_json is neither an inline
\* mapping nor a string that parses as JSON.
C5_DashboardJsonForms ==
    \A i \in 1..Len(products) :
        HasRun(products[i], "required") =>
            \A f \in Under(products[i], "dashboards") :
                (IsYaml(f) /\ OtherwiseDashboard(Load(f))) =>
                    (ReportedInvalid(products[i], f) <=> ~DashboardAccepted(Load(f)))

(***************************************************************************)
(* C6                                                                      *)
(***************************************************************************)
\* C6: a product that touches a platform kind and passed has consistent slugs;
\* and a product whose directory-level validation succeeded, whose slugs are
\* not consistent and which the run is done with, failed with SlugMismatch.
C6_SlugConsistency ==
    \A i \in 1..Len(products) :
        /\ (products[i] \in Elems(passed) /\ TouchesPlatform(products[i])) =>
               SlugsConsistent(products[i])
        /\ (FailedIn(products[i]) /\ HasRun(products[i], "x_team")
              /\ result.kind # "SlugMismatch") => SlugsConsistent(products[i])

(***************************************************************************)
(* C7                                                                      *)
(***************************************************************************)
\* the position in the changed-file list of the first file of product p
FirstTouch(p) ==
    FirstIdx({k \in 1..Len(changed_files) : StartsWith(changed_files[k], "templates/" \o p \o "/")})

\* the products that have a touched file: templates/<p>/...
TouchedProducts ==
    {p \in UNION {{SubSeq(f, 11, n) : n \in 11..Len(f)} :
                     f \in {g \in Elems(changed_files) : StartsWith(g, "templates/")}} :
        ~Contains(p, "/") /\ Touched(p) # {}}

IndexOf(p) == FirstIdx({k \in 1..Len(products) : products[k] = p})

RunOrder == CheckOrder \o <<"x_team", "x_collection", "x_assets", "x_notif">>

\* C7: the products are validated one at a time in the order of their first
\* appearance in the changed-file list, the directory-level checks of a
\* product before its cross-file checks; a failure ends the run, the products
\* reported as passed are exactly those before the failing one, and no check
\* was run for a product after it.
C7_ProductsInOrder ==
    /\ (pc = "parse" /\ ran = <<>>) =>
          /\ Elems(products) = TouchedProducts
          /\ \A i \in 1..Len(products) : \A j \in (i + 1)..Len(products) :
                products[i] # products[j] /\ FirstTouch(products[i]) < FirstTouch(products[j])
    /\ Len(passed) <= Len(products)
    /\ \A i \in 1..Len(passed) : passed[i] = products[i]
    /\ \A k \in 1..Len(ran) :
          /\ IndexOf(ran[k][1]) # 0 /\ IndexOf(ran[k][1]) <= idx
          /\ k > 1 =>
                \/ /\ ran[k - 1][1] = ran[k][1]
                   /\ FirstIdx({n \in 1..Len(RunOrder) : RunOrder[n] = ran[k - 1][2]})
                        < FirstIdx({n \in 1..Len(RunOrder) : RunOrder[n] = ran[k][2]})
                \/ /\ IndexOf(ran[k][1]) = IndexOf(ran[k - 1][1]) + 1
                   /\ ran[k][2] = "parse"
                   /\ ran[k - 1][1] \in Elems(passed)
    /\ (ran # <<>> /\ pc \notin {"done", "parse"}) => ran[Len(ran)][1] = products[idx]
    /\ Failed =>
          /\ pc = "done"
          /\ result.product = products[Len(passed) + 1]
          /\ idx = Len(passed) + 1
          /\ ran[Len(ran)] = <<result.product, result.check>>
    /\ result.kind = "ok" => passed = products

\* beta comes first in the list and passed; acme failed after it
C7_Witness ==
    /\ products = <<"beta", "acme">>
    /\ FirstTouch("beta") = 1
    /\ passed = <<"beta">>
    /\ FailedIn("acme") /\ pc = "done"

(***************************************************************************)
(* C8                                                                      *)
(***************************************************************************)
DependencyFailure(p) == FailedIn(p) /\ result.kind = "DependencyViolation" /\ result.check = "deps"

\* C8 as stated: a product that touches monitors/ without notification-policies/,
\* or notification-policies/ without monitors/, never passes, and when the run
\* ends in it the failure is DependencyViolation.
C8_DependencyAlways ==
    \A i \in 1..Len(products) :
        /\ products[i] \in Elems(passed) => ~CoDependencyBroken(products[i])
        /\ (FailedIn(products[i]) /\ ~DependencyFailure(products[i])) =>
               ~CoDependencyBroken(products[i])

\* C8 amended: a product that touches monitors/ without notification-policies/,
\* or the reverse, never passes; and when its YAML and JSON files parse, its
\* README.md is touched and its manifest check passes, the run ends in it
\* with DependencyViolation.
C8_DependencyAfterEarlierChecks ==
    \A i \in 1..Len(products) :
        /\ products[i] \in Elems(passed) => ~CoDependencyBroken(products[i])
        /\ (FailedIn(products[i]) /\ ~DependencyFailure(products[i])
              /\ CoDependencyBroken(products[i])) =>
               \/ ~AllParse(products[i])
               \/ ~HasReadme(products[i])
               \/ Violates(products[i], "manifest")

\* notification-policies/ touched without monitors/: the dependency failure
C8_Witness ==
    \E i \in 1..Len(products) :
        /\ "notification-policies" \in TouchedKinds(products[i])
        /\ "monitors" \notin TouchedKinds(products[i])
        /\ DependencyFailure(products[i])

(***************************************************************************)
(* C10                                                                     *)
(***************************************************************************)
\* the files the directory-level validation checked against a schema
SchemaChecked(p) ==
    TeamFiles(p) \cup CollectionFiles(p) \cup Under(p, "dashboards")
        \cup Under(p, "monitors") \cup Under(p, "notification-policies")

\* C10: a failure of a cross-file function is a SlugMismatch, and every file
\* the cross-file functions read a slug from is the team file, the collection
\* file or a file under dashboards/, monitors/ or notification-policies/.
C10_CrossFileSafe ==
    /\ (Failed /\ \E k \in 1..Len(CrossChecks) : CrossChecks[k] = result.check) =>
          result.kind = "SlugMismatch"
    /\ idx > 0 => loaded \subseteq SchemaChecked(products[idx])

(***************************************************************************)
(* check_structure on its own: documents built to conform to an expected   *)
(* structure, with extra keys at every level, and one required key removed *)
(***************************************************************************)
\* a structure with list templates, of mappings and of strings
LISTED_EXPECTED_STRUCTURE ==
    << <<"kind", Lit("Manifest")>>,
       <<"assets", Tmpl(<<Shape(<< <<"slug", Ty("str")>>, <<"file", Ty("str")>> >>)>>)>>,
       <<"tags", Tmpl(<<Ty("str")>>)>> >>

MatchShapes ==
    {TEAM_EXPECTED_STRUCTURE, COLLECTION_EXPECTED_STRUCTURE, DASHBOARD_EXPECTED_STRUCTURE,
     MONITOR_EXPECTED_STRUCTURE, NOTIFICATION_POLICY_EXPECTED_STRUCTURE,
     LISTED_EXPECTED_STRUCTURE}

\* how many extra keys a mapping of a document carries, at most
MaxExtraKeys == 1

\* how many items a list of a document holds
MaxItems == 2

ExtraKeys(n) == {"extra" \o ToString(i) : i \in 1..n}

ShapeKeys(shape) == {shape[i][1] : i \in 1..Len(shape)}

ExpectedOf(shape, key) == shape[CHOOSE i \in 1..Len(shape) : shape[i][1] = key][2]

\* a document that has every key of the shape with a conforming value, and n
\* extra keys with value extra in every mapping
RECURSIVE ConformingDict(_, _, _)
RECURSIVE ConformingValue(_, _, _)
ConformingValue(ev, n, extra) ==
    CASE ev.e = "lit" -> ev.v
      [] ev.e = "type" -> IF ev.v = "str" THEN Str("text") ELSE Dict([channel |-> Str("mail")])
      [] ev.e = "shape" -> ConformingDict(ev.v, n, extra)
      [] ev.e = "list" -> List([j \in 1..MaxItems |-> ConformingValue(ev.v[1], n, extra)])

ConformingDict(shape, n, extra) ==
    Dict([k \in ShapeKeys(shape) \cup ExtraKeys(n) |->
            IF k \in ShapeKeys(shape) THEN ConformingValue(ExpectedOf(shape, k), n, extra)
            ELSE extra])

\* the required keys of a shape, each as the steps that lead to it: a key, or
\* "[j]" for item j of a list
RECURSIVE RequiredPaths(_)
RequiredPaths(shape) ==
    UNION {
        LET k == shape[i][1]
            ev == shape[i][2]
        IN  {<<k>>}
            \cup (IF ev.e = "shape" THEN {<<k>> \o q : q \in RequiredPaths(ev.v)} ELSE {})
            \cup (IF ev.e = "list" /\ ev.v[1].e = "shape"
                  THEN {<<k, "[" \o ToString(j) \o "]">> \o q :
                           j \in 0..(MaxItems - 1), q \in RequiredPaths(ev.v[1].v)}
                  ELSE {})
        : i \in 1..Len(shape) }

\* the document without the key the path leads to
RECURSIVE RemoveAt(_, _)
RemoveAt(value, path) ==
    IF value.t = "list"
    THEN List([j \in 1..Len(value.v) |->
                 IF path[1] = "[" \o ToString(j - 1) \o "]"
                 THEN RemoveAt(value.v[j], Tail(path)) ELSE value.v[j]])
    ELSE IF Len(path) = 1
    THEN Dict([k \in DOMAIN value.v \ {path[1]} |-> value.v[k]])
    ELSE Dict([k \in DOMAIN value.v |->
                 IF k = path[1] THEN RemoveAt(value.v[k], Tail(path)) ELSE value.v[k]])

\* the dotted and indexed path of the steps: spec.slug, assets[0].file
RECURSIVE PathString(_)
PathString(path) ==
    IF Len(path) = 1 THEN path[1]
    ELSE LET init == PathString(SubSeq(path, 1, Len(path) - 1))
             last == path[Len(path)]
         IN  IF StartsWith(last, "[") THEN init \o last ELSE init \o "." \o last

InitMatch ==
    /\ changed_files = <<>>
    /\ fs = <<>>
    /\ InitRun
    /\ mshape \in MatchShapes
    /\ \E n \in 0..MaxExtraKeys : \E extra \in {Str("more"), IntV(7), Dict([k |-> Str("v")])} :
          mdoc = ConformingDict(mshape, n, extra)
    /\ mremoved = ""
    /\ mresult = Unchecked

\* one required key, at any level, is taken out of the document
RemoveRequiredKey ==
    /\ mresult = Unchecked
    /\ mremoved = ""
    /\ \E path \in RequiredPaths(mshape) :
          /\ mdoc' = RemoveAt(mdoc, path)
          /\ mremoved' = PathString(path)
    /\ UNCHANGED <<mshape, mresult, runVars>>

\* check_structure(data, expected, file_path)
CheckStructure ==
    /\ mresult = Unchecked
    /\ mresult' = check_structure(mdoc, mshape, "")
    /\ UNCHANGED <<mdoc, mshape, mremoved, runVars>>

NextMatch == RemoveRequiredKey \/ CheckStructure

SpecMatch == InitMatch /\ [][NextMatch]_vars

(***************************************************************************)
(* C9                                                                      *)
(***************************************************************************)
\* C9: check_structure passes a document that has every key of the expected
\* structure with a conforming value, whatever extra keys its mappings carry;
\* with one required key removed, at the top or nested, it fails with
\* MissingKey and the dotted path of exactly that key.
C9_ExtraKeysPassRemovedKeyFails ==
    mresult # Unchecked =>
        IF mremoved = "" THEN mresult = OK ELSE mresult = Err("MissingKey", mremoved)

\* spec.slug removed from a document with extra keys: Missing key 'spec.slug'
C9_Witness ==
    /\ mremoved = "spec.slug"
    /\ "extra1" \in DOMAIN mdoc.v /\ "extra1" \in DOMAIN mdoc.v["spec"].v
    /\ mresult = Err("MissingKey", "spec.slug")

\* a document with extra keys at both levels passed
C9_WitnessPass ==
    /\ mremoved = ""
    /\ "spec" \in DOMAIN mdoc.v
    /\ "extra1" \in DOMAIN mdoc.v /\ "extra1" \in DOMAIN mdoc.v["spec"].v
    /\ mresult = OK

(***************************************************************************)
(* Changed-file lists that name a path more than once                      *)
(***************************************************************************)
\* how many slots an input with a repeated path may differ in from a
\* reference input
MaxRepeatDeviations == 1

\* the list q with its k-th path listed once more, next to the first
\* occurrence or at the end of the list
Repeated(q, k, atEnd) ==
    IF atEnd THEN Append(q, q[k])
    ELSE SubSeq(q, 1, k) \o <<q[k]>> \o SubSeq(q, k + 1, Len(q))

\* the state after construction when the caller did not remove duplicates
InitRepeated ==
    /\ \E base \in BaseChoices : \E c \in Choices(base, NSlots, MaxRepeatDeviations) :
         \E k \in 1..Len(FilesOf(c)) : \E atEnd \in BOOLEAN :
            /\ changed_files = Repeated(FilesOf(c), k, atEnd)
            /\ fs = TreeOf(c)
    /\ InitRun
    /\ mdoc = NoDoc
    /\ mshape = NoShape
    /\ mremoved = ""
    /\ mresult = Unchecked

SpecRepeated == InitRepeated /\ [][Next]_vars

(***************************************************************************)
(* C11                                                                     *)
(***************************************************************************)
\* the list q without the later occurrences of its paths
Distinct(q) ==
    LET first == SelectSeq([i \in 1..Len(q) |-> i],
                           LAMBDA i : \A j \in 1..(i - 1) : q[j] # q[i])
    IN  [k \in 1..Len(first) |-> q[first[k]]]

\* what the cross-file functions do with the list fl of product p
CrossOutcome(p, fl) ==
    LET t == get_team_slug_from_collection(p, fl)
        c == validate_team_slug_for_collection(p, fl, t[2])
        a == validate_collection_slug_for_platform_assets(p, fl, c[2])
        n == validate_team_slug_for_notif_policy(p, fl, t[2])
    IN  IF t[1] # NoFail THEN t[1]
        ELSE IF c[1] # NoFail THEN c[1]
        ELSE IF a[1] # NoFail THEN a[1]
        ELSE n[1]

\* what the two validators do with the list fl of product p: the first failure
\* in the order of the calls, NoFail when there is none
Outcome(p, fl) ==
    LET dirs == ExistingDirs(p, fl)
    IN  IF validate_files_parseable(p, fl) # NoFail THEN validate_files_parseable(p, fl)
        ELSE IF check_readme_file(p, fl) # NoFail THEN check_readme_file(p, fl)
        ELSE IF check_manifest_file(p, fl) # NoFail THEN check_manifest_file(p, fl)
        ELSE IF check_existing_asset_dirs(p, fl) # NoFail
        THEN check_existing_asset_dirs(p, fl)
        ELSE IF check_asset_dir_dependencies(p, dirs) # NoFail
        THEN check_asset_dir_dependencies(p, dirs)
        ELSE IF check_required_files_in_assets(p, fl, dirs) # NoFail
        THEN check_required_files_in_assets(p, fl, dirs)
        ELSE IF check_platform_asset_files(p, fl, dirs) # NoFail
        THEN check_platform_asset_files(p, fl, dirs)
        ELSE IF dirs \cap PLATFORM_ASSET_TYPES # {} THEN CrossOutcome(p, fl)
        ELSE NoFail

\* the outcome the run had for product p: the kind of failure and the check
\* that raised it, <<"ok", "">> when it was reported as passed
RunOutcome(p) == IF FailedIn(p) THEN <<result.kind, result.check>> ELSE <<"ok", "">>

\* the run does for every finished product what Outcome says of its list
RunIsOutcome ==
    \A p \in Elems(products) :
        Finished(p) =>
            \E o \in {Outcome(p, groups[p])} : RunOutcome(p) = <<o.kind, o.check>>

\* C11: listing a path of a product group more than once does not change the
\* outcome of that product: a finished product passed, or failed in the same
\* check with the same kind of error, as it does on the list of its distinct
\* paths.
C11_DuplicatesTolerated ==
    \A p \in Elems(products) :
        Finished(p) =>
            \E o \in {Outcome(p, Distinct(groups[p]))} : RunOutcome(p) = <<o.kind, o.check>>

\* a product whose list names a path twice has finished
C11_Reached ==
    \E p \in Elems(products) :
        /\ Finished(p)
        /\ Len(Distinct(groups[p])) < Len(groups[p])

====
